---- MODULE Spec2Model ----
(***************************************************************************)
(* Authentication / authorization slice of the task-manager API:           *)
(* the user, task and category endpoints of app/api/v1/endpoints/users.py, *)
(* the request schemas of app/schemas/user.py and the User model of        *)
(* app/models/user.py.  One action per endpoint; every request is handled  *)
(* in its own transaction, so a handler is one atomic step.                *)
(*                                                                         *)
(* Strings whose content matters (usernames, e-mail addresses, passwords)  *)
(* are sequences of one-character strings.  An Optional[T] field is a set  *)
(* with at most one element ({} is None).                                  *)
(***************************************************************************)
EXTENDS FiniteSets, Integers, Sequences, TLC

VARIABLES users, nextUserId, tasks, nextTaskId, categories, nextCategoryId,
          tokens, last, pending

vars == <<users, nextUserId, tasks, nextTaskId, categories, nextCategoryId,
          tokens, last, pending>>

\* ------------------------------------------------------------------ bounds
MaxUserId == 3
MaxRows == 1
MaxTokens == 2

\* ------------------------------------------------------- schema constants
UsernameMinLength == 3
UsernameMaxLength == 50
PasswordMinLength == 8

\* ----------------------------------------------------------- characters
LowerSeq == <<"a","b","c","d","e","f","g","h","i","j","k","l","m",
              "n","o","p","q","r","s","t","u","v","w","x","y","z">>
UpperSeq == <<"A","B","C","D","E","F","G","H","I","J","K","L","M",
              "N","O","P","Q","R","S","T","U","V","W","X","Y","Z">>
DigitSeq == <<"0","1","2","3","4","5","6","7","8","9">>

Range(s) == { s[i] : i \in 1..Len(s) }

Letters == Range(LowerSeq) \cup Range(UpperSeq)
Digits == Range(DigitSeq)
NL == "\n"

\* str.lower() on one character, then on a string
LowerChar(c) ==
    IF c \in Range(UpperSeq)
    THEN LowerSeq[CHOOSE i \in 1..Len(UpperSeq) : UpperSeq[i] = c]
    ELSE c

Lower(s) == [i \in 1..Len(s) |-> LowerChar(s[i])]

\* Python's  sub in s
Contains(s, sub) ==
    \E i \in 1..(Len(s) - Len(sub) + 1) : SubSeq(s, i, i + Len(sub) - 1) = sub

RECURSIVE Repeat(_, _)
Repeat(c, n) == IF n = 0 THEN <<>> ELSE <<c>> \o Repeat(c, n - 1)

Str_admin == <<"a","d","m","i","n">>

\* ------------------------------------------------------------ UserScope
TASKS_READ == "tasks:read"
TASKS_WRITE == "tasks:write"
USERS_READ == "users:read"
USERS_WRITE == "users:write"
ADMIN == "admin"

UserScope == {TASKS_READ, TASKS_WRITE, USERS_READ, USERS_WRITE, ADMIN}

\* User.scopes : the property returns a list, recomputed on every access
scopes_NoRoleCheck(user) ==
    <<TASKS_READ, TASKS_WRITE, USERS_READ, USERS_WRITE, ADMIN>>

scopes(user) ==
    IF user.is_superuser
    THEN <<TASKS_READ, TASKS_WRITE, USERS_READ, USERS_WRITE, ADMIN>>
    ELSE <<TASKS_READ, TASKS_WRITE>>

\* x in list
InList(x, list) == \E i \in 1..Len(list) : list[i] = x

\* ------------------------------------------------------ schema validation
\* regex="^[a-zA-Z0-9_-]+$" applied with re.match: '$' also matches just
\* before one trailing newline
UsernameChars == Letters \cup Digits \cup {"_", "-"}

AllIn(s, cs) == \A i \in 1..Len(s) : s[i] \in cs

MatchesUsernameRegex(v) ==
    \/ Len(v) >= 1 /\ AllIn(v, UsernameChars)
    \/ /\ Len(v) >= 2
       /\ v[Len(v)] = NL
       /\ AllIn(SubSeq(v, 1, Len(v) - 1), UsernameChars)

\* UserBase.username : Field constraints, then the validator
UserBase_username_ok(v) ==
    /\ Len(v) >= UsernameMinLength
    /\ Len(v) <= UsernameMaxLength
    /\ MatchesUsernameRegex(v)
    /\ ~Contains(Lower(v), Str_admin)

\* UserUpdate.username : Optional, Field(None, min_length, max_length) with
\* no regex, then the validator (skipped for None)
UserUpdate_username_ok(opt) ==
    \A v \in opt :
        /\ Len(v) >= UsernameMinLength
        /\ Len(v) <= UsernameMaxLength
        /\ ~(Len(v) > 0 /\ Contains(Lower(v), Str_admin))

\* EmailStr : local@domain with a dotted domain
Count(s, c) == Cardinality({ i \in 1..Len(s) : s[i] = c })

EmailStr_ok(e) ==
    /\ Count(e, "@") = 1
    /\ LET at == CHOOSE i \in 1..Len(e) : e[i] = "@"
           domain == SubSeq(e, at + 1, Len(e))
       IN /\ at > 1
          /\ Len(domain) >= 3
          /\ Contains(domain, <<".">>)
          /\ domain[1] # "."
          /\ domain[Len(domain)] # "."
          /\ AllIn(domain, Letters \cup Digits \cup {".", "-"})
          /\ ~(" " \in Range(e))

UserCreate_ok(body) ==
    /\ EmailStr_ok(body.email)
    /\ UserBase_username_ok(body.username)
    /\ Len(body.password) >= PasswordMinLength

UserUpdate_ok(body) ==
    /\ \A e \in body.email : EmailStr_ok(e)
    /\ UserUpdate_username_ok(body.username)

\* ------------------------------------------------------- password hasher
\* A secret string is the plaintext it derives from and the number of times
\* bcrypt was applied to it; the random salt is left out, so that verify is
\* exactly "hashed is a bcrypt digest of plain".
Plain(p) == [base |-> p, rounds |-> 0]

pwd_context_hash(secret) == [secret EXCEPT !.rounds = @ + 1]

pwd_context_verify(plain, hashed) ==
    /\ hashed.rounds = plain.rounds + 1
    /\ hashed.base = plain.base

get_password_hash(password) == pwd_context_hash(Plain(password))

\* @listens_for(User, "before_insert")
hash_user_password(target) ==
    IF target.hashed_password.rounds > 0 \/ Len(target.hashed_password.base) > 0
    THEN [target EXCEPT !.hashed_password = pwd_context_hash(@)]
    ELSE target

\* ------------------------------------------------------------ input sets
U_root == <<"r","o","o","t">>
U_bob == <<"b","o","b">>
U_amy == <<"a","m","y">>
U_short == <<"a","b">>
U_Admin == <<"x","A","d","M","i","N">>
U_space == <<"a"," ","b">>
U_newline == <<"a","m","y",NL>>
U_long == Repeat("a", UsernameMaxLength + 1)
U_eve == <<"e","v","e">>

E_root == <<"r","@","x",".","z">>
E_bob == <<"b","@","x",".","z">>
E_amy == <<"a","@","x",".","z">>
E_bad == <<"a","x",".","z">>
E_eve == <<"e","@","x",".","z">>

P_root == <<"r","o","o","t","p","a","s","s">>
P_bob == <<"b","o","b","s","p","a","s","s">>
P_short == <<"p","w">>

UserCreateValid == [email |-> E_amy, username |-> U_amy, password |-> P_bob]

UserCreateInputs ==
    { UserCreateValid,
      [email |-> E_amy, username |-> U_newline, password |-> P_bob],
      [email |-> E_amy, username |-> U_bob, password |-> P_bob],
      [email |-> E_amy, username |-> U_short, password |-> P_bob],
      [email |-> E_amy, username |-> U_Admin, password |-> P_bob],
      [email |-> E_amy, username |-> U_space, password |-> P_bob],
      [email |-> E_amy, username |-> U_long, password |-> P_bob],
      [email |-> E_bad, username |-> U_amy, password |-> P_short] }

\* bodies of create_user requests in flight together: the same username,
\* the same email, or neither
RaceCreateInputs ==
    { UserCreateValid,
      [email |-> E_eve, username |-> U_amy, password |-> P_bob],
      [email |-> E_amy, username |-> U_eve, password |-> P_bob] }

UserUpdateInputs ==
    { [email |-> {}, username |-> {U_space}, is_active |-> {}],
      [email |-> {}, username |-> {U_short}, is_active |-> {}],
      [email |-> {}, username |-> {U_Admin}, is_active |-> {}],
      [email |-> {}, username |-> {U_long}, is_active |-> {}],
      [email |-> {E_root}, username |-> {}, is_active |-> {FALSE}],
      [email |-> {E_bad}, username |-> {}, is_active |-> {TRUE}],
      [email |-> {}, username |-> {}, is_active |-> {TRUE}] }

LoginInputs ==
    { [username |-> U_root, password |-> P_root],
      [username |-> U_bob, password |-> P_bob],
      [username |-> U_bob, password |-> P_root],
      [username |-> U_amy, password |-> P_bob] }

TaskCreateInputs == {[title |-> "t0"]}
TaskUpdateInputs == {[title |-> "t1"]}
CategoryCreateInputs == {[title |-> "c0"]}
CategoryUpdateInputs == {[title |-> "c1"]}

\* path parameters: every id the store can hold
UserIds == 1..MaxUserId
TaskIds == 1..MaxRows
CategoryIds == 1..MaxRows

\* ------------------------------------------------------------ credentials
\* What a request carries in its Authorization header: nothing, a bearer
\* token that does not decode (malformed, tampered or expired), or a token
\* the issuer signed and that has not expired.
Absent == [kind |-> "absent"]
Garbage == [kind |-> "garbage"]

Unauthenticated == {Absent, Garbage}

Credentials == Unauthenticated \cup tokens

\* The requests to an endpoint with arguments: every issued token with every
\* argument, and the requests without a usable token with a few of them
Requests(args, few) == (tokens \X args) \cup (Unauthenticated \X few)

\* ------------------------------------------------------------------ state
store == <<users, nextUserId, tasks, nextTaskId, categories, nextCategoryId>>

NewUser_Elevated(email, username, hashed_password) ==
    [email |-> email, username |-> username,
     hashed_password |-> hashed_password,
     is_active |-> TRUE, is_superuser |-> TRUE, last_login |-> FALSE]

NewUser(email, username, hashed_password) ==
    [email |-> email, username |-> username,
     hashed_password |-> hashed_password,
     is_active |-> TRUE, is_superuser |-> FALSE, last_login |-> FALSE]

NoResponse == [op |-> "none", cred |-> Absent, status |-> 0, detail |-> "",
               caller |-> 0, target |-> 0, data |-> {}, cascaded |-> {}]

\* The requests that are handled concurrently, each in its own unit of work.
Workers == {"w1", "w2"}

\* A concurrent create_user request: where its handler stands ("idle": no
\* request, "insert": the row is about to be written, "done": answered),
\* its body, the user the access guard resolved, and its response: status,
\* detail, the id of the row created (0: none) and the step that raised the
\* response
Idle == [pc |-> "idle", body |-> UserCreateValid, caller |-> 0, status |-> 0,
         detail |-> "", id |-> 0, stage |-> "none"]

Init ==
    /\ users = (1 :> [hash_user_password(NewUser(E_root, U_root, Plain(P_root)))
                        EXCEPT !.is_superuser = TRUE])
               @@ (2 :> hash_user_password(NewUser(E_bob, U_bob, Plain(P_bob))))
    /\ nextUserId = 3
    /\ tasks = <<>>
    /\ nextTaskId = 1
    /\ categories = <<>>
    /\ nextCategoryId = 1
    /\ tokens = {}
    /\ last = NoResponse
    /\ pending = [w \in Workers |-> Idle]

\* A request is handled in one transaction and answered before the next one
\* is taken up.  The response in flight: the endpoint, the credential the
\* request carried, the status and detail, the user the access guard resolved
\* (0: none), the id the request named or created (0: none) and the
\* records the body returns (users as UserRead, tasks and categories by id);
\* with it, the ids of the task rows the transaction removed by cascade
ReplyCascaded(op, cred, caller, target, status, detail, data, cascaded) ==
    /\ last = NoResponse
    /\ last' = [op |-> op, cred |-> cred, status |-> status, detail |-> detail,
                caller |-> caller, target |-> target, data |-> data,
                cascaded |-> cascaded]
    /\ UNCHANGED pending

Reply(op, cred, caller, target, status, detail, data) ==
    ReplyCascaded(op, cred, caller, target, status, detail, data, {})

Remove(f, k) == [x \in (DOMAIN f) \ {k} |-> f[x]]

UserByUsername(username) == { i \in DOMAIN users : users[i].username = username }

\* UserRead : the response projection of a live record (orm_mode); scopes is
\* read from the User.scopes property, hashed_password is not a field
UserRead(i, user) ==
    [id |-> i, email |-> user.email, username |-> user.username,
     is_active |-> user.is_active, is_superuser |-> user.is_superuser,
     last_login |-> user.last_login, scopes |-> scopes(user)]

\* ------------------------------------------------------- services/auth
\* security = HTTPBearer() : with no Authorization header the dependency
\* itself answers 403 "Not authenticated"
HTTPBearer(cred) ==
    IF cred.kind = "absent"
    THEN [ok |-> FALSE, status |-> 403, detail |-> "Not authenticated"]
    ELSE [ok |-> TRUE, status |-> 0, detail |-> ""]

Unauthorized == [ok |-> FALSE, id |-> 0, status |-> 401,
                 detail |-> "Could not validate credentials"]

\* Access guard: decode the token, re-fetch the live record by the subject
get_current_user(cred) ==
    IF cred.kind # "jwt" THEN Unauthorized
    ELSE IF UserByUsername(cred.sub) = {} THEN Unauthorized
    ELSE [ok |-> TRUE, id |-> CHOOSE i \in UserByUsername(cred.sub) : TRUE,
          status |-> 0, detail |-> ""]

\* ... and reject an inactive user
get_current_active_user(cred) ==
    LET r == get_current_user(cred)
    IN IF r.ok /\ ~users[r.id].is_active
       THEN [ok |-> FALSE, id |-> r.id, status |-> 400,
             detail |-> "Inactive user"]
       ELSE r

\* Authenticator: the user's id, or 0 for None
authenticate_user(username, password) ==
    IF UserByUsername(username) = {} THEN 0
    ELSE LET i == CHOOSE i \in UserByUsername(username) : TRUE
         IN IF pwd_context_verify(Plain(password), users[i].hashed_password)
            THEN i ELSE 0

create_access_token(data) ==
    [kind |-> "jwt", sub |-> data.sub, scopes |-> data.scopes]

\* ------------------------------------------------------------ POST /token
login_response_TellsUnknownUser(form) ==
    IF authenticate_user(form.username, form.password) = 0
    THEN [status |-> 401,
          detail |-> IF UserByUsername(form.username) = {}
                     THEN "Unknown user" ELSE "Incorrect username or password",
          headers |-> {<<"WWW-Authenticate", "Bearer">>},
          body |-> {}]
    ELSE LET user == users[authenticate_user(form.username, form.password)]
         IN [status |-> 200, detail |-> "", headers |-> {},
             body |-> {[access_token |->
                           create_access_token([sub |-> user.username,
                                                scopes |-> scopes(user)]),
                        token_type |-> "bearer"]}]

\* what the caller of the token endpoint observes
login_response(form) ==
    IF authenticate_user(form.username, form.password) = 0
    THEN [status |-> 401,
          detail |-> "Incorrect username or password",
          headers |-> {<<"WWW-Authenticate", "Bearer">>},
          body |-> {}]
    ELSE LET user == users[authenticate_user(form.username, form.password)]
         IN [status |-> 200, detail |-> "", headers |-> {},
             body |-> {[access_token |->
                           create_access_token([sub |-> user.username,
                                                scopes |-> scopes(user)]),
                        token_type |-> "bearer"]}]

login_for_access_token(form) ==
    /\ last = NoResponse
    /\ LET id == authenticate_user(form.username, form.password)
           r == login_response(form)
           named == UserByUsername(form.username)
       IN /\ Reply("login_for_access_token", Absent, id,
                   IF named = {} THEN 0 ELSE CHOOSE i \in named : TRUE,
                   r.status, r.detail, {})
          /\ IF id = 0
             THEN UNCHANGED <<store, tokens>>
             ELSE /\ tokens' = tokens \cup { t.access_token : t \in r.body }
                  /\ Cardinality(tokens') <= MaxTokens
                  /\ users' = [users EXCEPT ![id].last_login = TRUE]
                  /\ UNCHANGED <<nextUserId, tasks, nextTaskId, categories,
                                 nextCategoryId>>

\* ------------------------------------------------------------ UserService
\* Each operation returns its outcome and the users table it leaves.
UserService_create_user(body) ==
    IF \E i \in DOMAIN users : \/ users[i].username = body.username
                               \/ users[i].email = body.email
    THEN [status |-> 409, detail |-> "Conflict", users |-> users, id |-> 0,
          data |-> {}]
    ELSE LET db_user == hash_user_password(
                            NewUser(body.email, body.username,
                                    get_password_hash(body.password)))
         IN [status |-> 201, detail |-> "",
             users |-> users @@ (nextUserId :> db_user), id |-> nextUserId,
             data |-> {UserRead(nextUserId, db_user)}]

UserService_get_users == { UserRead(i, users[i]) : i \in DOMAIN users }

UserService_get_user(user_id) ==
    IF user_id \in DOMAIN users THEN {UserRead(user_id, users[user_id])} ELSE {}

Patch(old, opt) == IF opt = {} THEN old ELSE CHOOSE v \in opt : TRUE

UserService_update_user(user_id, body) ==
    IF user_id \notin DOMAIN users
    THEN [status |-> 404, detail |-> "User not found", users |-> users,
          data |-> {}]
    ELSE LET db_user == [users[user_id] EXCEPT
                            !.email = Patch(@, body.email),
                            !.username = Patch(@, body.username),
                            !.is_active = Patch(@, body.is_active)]
         IN IF \E i \in (DOMAIN users) \ {user_id} :
                   \/ users[i].username = db_user.username
                   \/ users[i].email = db_user.email
            THEN [status |-> 409, detail |-> "Conflict", users |-> users,
                  data |-> {}]
            ELSE [status |-> 200, detail |-> "",
                  users |-> [users EXCEPT ![user_id] = db_user],
                  data |-> {UserRead(user_id, db_user)}]

\* tasks = relationship("Task", cascade="all, delete-orphan")
User_tasks_cascade_None(user_id) == tasks

User_tasks_cascade(user_id) ==
    [t \in { x \in DOMAIN tasks : tasks[x].owner_id # user_id } |-> tasks[t]]

UserService_delete_user(user_id) ==
    IF user_id \notin DOMAIN users
    THEN [status |-> 404, detail |-> "User not found", users |-> users,
          tasks |-> tasks]
    ELSE [status |-> 204, detail |-> "", users |-> Remove(users, user_id),
          tasks |-> User_tasks_cascade(user_id)]

\* ---------------------------------------------------------- user endpoints
\* A handler runs after its dependencies (the access guard) and after the
\* validation of the request body; a failure of either answers the request
\* before the handler's own scope check.
Forbidden(op, cred, caller, target) ==
    Reply(op, cred, caller, target, 403, "Not enough permissions", {})

Rejected(op, cred, auth, target) ==
    Reply(op, cred, auth.id, target, auth.status, auth.detail, {})

Unprocessable(op, cred, caller, target) ==
    Reply(op, cred, caller, target, 422, "validation error", {})

\* POST /users
create_user(cred, body) ==
    /\ last = NoResponse
    /\ LET bearer == HTTPBearer(cred)
           auth == get_current_active_user(cred)
       IN IF ~bearer.ok
          THEN /\ Reply("create_user", cred, 0, 0, bearer.status, bearer.detail, {})
               /\ UNCHANGED <<store, tokens>>
          ELSE IF ~auth.ok
          THEN Rejected("create_user", cred, auth, 0) /\ UNCHANGED <<store, tokens>>
          ELSE IF ~UserCreate_ok(body)
          THEN Unprocessable("create_user", cred, auth.id, 0)
               /\ UNCHANGED <<store, tokens>>
          ELSE IF ~InList(USERS_WRITE, UserRead(auth.id, users[auth.id]).scopes)
          THEN Forbidden("create_user", cred, auth.id, 0)
               /\ UNCHANGED <<store, tokens>>
          ELSE LET r == UserService_create_user(body)
               IN /\ r.status = 201 => nextUserId <= MaxUserId
                  /\ users' = r.users
                  /\ nextUserId' = IF r.status = 201 THEN nextUserId + 1
                                   ELSE nextUserId
                  /\ Reply("create_user", cred, auth.id, r.id, r.status, r.detail,
                           r.data)
                  /\ UNCHANGED <<tasks, nextTaskId, categories, nextCategoryId,
                                 tokens>>

\* GET /users/me
read_users_me_AnyUser(cred) ==
    /\ last = NoResponse
    /\ LET auth == get_current_user(cred)
       IN /\ IF ~auth.ok
             THEN Rejected("read_users_me", cred, auth, 0)
             ELSE Reply("read_users_me", cred, auth.id, 0, 200, "",
                        {UserRead(auth.id, users[auth.id])})
          /\ UNCHANGED <<store, tokens>>

read_users_me(cred) ==
    /\ last = NoResponse
    /\ LET auth == get_current_active_user(cred)
       IN /\ IF ~auth.ok
             THEN Rejected("read_users_me", cred, auth, 0)
             ELSE Reply("read_users_me", cred, auth.id, 0, 200, "",
                        {UserRead(auth.id, users[auth.id])})
          /\ UNCHANGED <<store, tokens>>

\* GET /api/me
read_current_user(cred) ==
    /\ last = NoResponse
    /\ LET auth == get_current_active_user(cred)
       IN /\ IF ~auth.ok
             THEN Rejected("read_current_user", cred, auth, 0)
             ELSE Reply("read_current_user", cred, auth.id, 0, 200, "",
                        {UserRead(auth.id, users[auth.id])})
          /\ UNCHANGED <<store, tokens>>

\* GET /users
read_users_TokenScopes(cred) ==
    /\ last = NoResponse
    /\ LET auth == get_current_active_user(cred)
       IN /\ IF ~auth.ok
             THEN Rejected("read_users", cred, auth, 0)
             ELSE IF ~InList(USERS_READ, cred.scopes)
             THEN Forbidden("read_users", cred, auth.id, 0)
             ELSE Reply("read_users", cred, auth.id, 0, 200, "", UserService_get_users)
          /\ UNCHANGED <<store, tokens>>

read_users(cred) ==
    /\ last = NoResponse
    /\ LET auth == get_current_active_user(cred)
       IN /\ IF ~auth.ok
             THEN Rejected("read_users", cred, auth, 0)
             ELSE IF ~InList(USERS_READ, UserRead(auth.id, users[auth.id]).scopes)
             THEN Forbidden("read_users", cred, auth.id, 0)
             ELSE Reply("read_users", cred, auth.id, 0, 200, "", UserService_get_users)
          /\ UNCHANGED <<store, tokens>>

\* GET /users/{user_id}
read_user(cred, user_id) ==
    /\ last = NoResponse
    /\ LET auth == get_current_active_user(cred)
       IN /\ IF ~auth.ok
             THEN Rejected("read_user", cred, auth, user_id)
             ELSE IF ~InList(USERS_READ, UserRead(auth.id, users[auth.id]).scopes)
             THEN Forbidden("read_user", cred, auth.id, user_id)
             ELSE IF UserService_get_user(user_id) = {}
             THEN Reply("read_user", cred, auth.id, user_id, 404, "User not found", {})
             ELSE Reply("read_user", cred, auth.id, user_id, 200, "",
                        UserService_get_user(user_id))
          /\ UNCHANGED <<store, tokens>>

\* PUT /users/{user_id}
update_user(cred, user_id, body) ==
    /\ last = NoResponse
    /\ LET auth == get_current_active_user(cred)
       IN IF ~auth.ok
          THEN Rejected("update_user", cred, auth, user_id)
               /\ UNCHANGED <<store, tokens>>
          ELSE IF ~UserUpdate_ok(body)
          THEN Unprocessable("update_user", cred, auth.id, user_id)
               /\ UNCHANGED <<store, tokens>>
          ELSE IF ~InList(USERS_WRITE, UserRead(auth.id, users[auth.id]).scopes)
          THEN Forbidden("update_user", cred, auth.id, user_id)
               /\ UNCHANGED <<store, tokens>>
          ELSE LET r == UserService_update_user(user_id, body)
               IN /\ users' = r.users
                  /\ Reply("update_user", cred, auth.id, user_id, r.status, r.detail,
                           r.data)
                  /\ UNCHANGED <<nextUserId, tasks, nextTaskId, categories,
                                 nextCategoryId, tokens>>

\* DELETE /users/{user_id}
delete_user_NoScopeCheck(cred, user_id) ==
    /\ last = NoResponse
    /\ LET auth == get_current_active_user(cred)
       IN IF ~auth.ok
          THEN Rejected("delete_user", cred, auth, user_id)
               /\ UNCHANGED <<store, tokens>>
          ELSE LET r == UserService_delete_user(user_id)
               IN /\ users' = r.users
                  /\ tasks' = r.tasks
                  /\ ReplyCascaded("delete_user", cred, auth.id, user_id, r.status,
                                   r.detail, {}, (DOMAIN tasks) \ (DOMAIN r.tasks))
                  /\ UNCHANGED <<nextUserId, nextTaskId, categories,
                                 nextCategoryId, tokens>>

delete_user(cred, user_id) ==
    /\ last = NoResponse
    /\ LET auth == get_current_active_user(cred)
       IN IF ~auth.ok
          THEN Rejected("delete_user", cred, auth, user_id)
               /\ UNCHANGED <<store, tokens>>
          ELSE IF ~InList(USERS_WRITE, UserRead(auth.id, users[auth.id]).scopes)
          THEN Forbidden("delete_user", cred, auth.id, user_id)
               /\ UNCHANGED <<store, tokens>>
          ELSE LET r == UserService_delete_user(user_id)
               IN /\ users' = r.users
                  /\ tasks' = r.tasks
                  /\ ReplyCascaded("delete_user", cred, auth.id, user_id, r.status,
                                   r.detail, {}, (DOMAIN tasks) \ (DOMAIN r.tasks))
                  /\ UNCHANGED <<nextUserId, nextTaskId, categories,
                                 nextCategoryId, tokens>>

\* ------------------------------------------------------------ TaskService
\* Every query and mutation is filtered by the owner id the handler passes;
\* a row that is absent or owned by someone else is "not found".
TaskService_create_task(body, owner_id) ==
    [status |-> 201, detail |-> "",
     rows |-> tasks @@ (nextTaskId :> [owner_id |-> owner_id, title |-> body.title])]

TaskService_get_tasks(owner_id) ==
    { x \in DOMAIN tasks : tasks[x].owner_id = owner_id }

TaskService_get_task(task_id, owner_id) ==
    IF task_id \in DOMAIN tasks /\ tasks[task_id].owner_id = owner_id
    THEN {task_id} ELSE {}

TaskService_update_task(task_id, body, owner_id) ==
    IF TaskService_get_task(task_id, owner_id) = {}
    THEN [status |-> 404, detail |-> "Task not found", rows |-> tasks]
    ELSE [status |-> 200, detail |-> "",
          rows |-> [tasks EXCEPT ![task_id].title = body.title]]

TaskService_delete_task(task_id, owner_id) ==
    IF TaskService_get_task(task_id, owner_id) = {}
    THEN [status |-> 404, detail |-> "Task not found", rows |-> tasks]
    ELSE [status |-> 204, detail |-> "", rows |-> Remove(tasks, task_id)]

\* ------------------------------------------------------------ CategoryService
\* Every query and mutation is filtered by the owner id the handler passes;
\* a row that is absent or owned by someone else is "not found".
CategoryService_create_category(body, owner_id) ==
    [status |-> 201, detail |-> "",
     rows |-> categories @@ (nextCategoryId :> [owner_id |-> owner_id, title |-> body.title])]

CategoryService_get_categories(owner_id) ==
    { x \in DOMAIN categories : categories[x].owner_id = owner_id }

CategoryService_get_category(category_id, owner_id) ==
    IF category_id \in DOMAIN categories /\ categories[category_id].owner_id = owner_id
    THEN {category_id} ELSE {}

CategoryService_update_category(category_id, body, owner_id) ==
    IF CategoryService_get_category(category_id, owner_id) = {}
    THEN [status |-> 404, detail |-> "Category not found", rows |-> categories]
    ELSE [status |-> 200, detail |-> "",
          rows |-> [categories EXCEPT ![category_id].title = body.title]]

CategoryService_delete_category(category_id, owner_id) ==
    IF CategoryService_get_category(category_id, owner_id) = {}
    THEN [status |-> 404, detail |-> "Category not found", rows |-> categories]
    ELSE [status |-> 204, detail |-> "", rows |-> Remove(categories, category_id)]

\* ------------------------------------------------------- task endpoints
\* POST /tasks
create_task(cred, body) ==
    /\ last = NoResponse
    /\ LET auth == get_current_active_user(cred)
       IN IF ~auth.ok
          THEN Rejected("create_task", cred, auth, 0) /\ UNCHANGED <<store, tokens>>
          ELSE LET r == TaskService_create_task(body,
                                UserRead(auth.id, users[auth.id]).id)
               IN /\ (nextTaskId - 1) + (nextCategoryId - 1) < MaxRows
                  /\ tasks' = r.rows
                  /\ nextTaskId' = nextTaskId + 1
                  /\ Reply("create_task", cred, auth.id, nextTaskId, r.status, r.detail,
                           {nextTaskId})
                  /\ UNCHANGED <<users, nextUserId, categories, nextCategoryId, tokens>>

\* GET /tasks
read_tasks(cred) ==
    /\ last = NoResponse
    /\ LET auth == get_current_active_user(cred)
       IN /\ IF ~auth.ok
             THEN Rejected("read_tasks", cred, auth, 0)
             ELSE Reply("read_tasks", cred, auth.id, 0, 200, "",
                        TaskService_get_tasks(UserRead(auth.id, users[auth.id]).id))
          /\ UNCHANGED <<store, tokens>>

\* GET /tasks/{task_id}
read_task_NoNotFound(cred, task_id) ==
    /\ last = NoResponse
    /\ LET auth == get_current_active_user(cred)
       IN /\ IF ~auth.ok
             THEN Rejected("read_task", cred, auth, task_id)
             ELSE Reply("read_task", cred, auth.id, task_id, 200, "",
                        TaskService_get_task(task_id,
                                         UserRead(auth.id, users[auth.id]).id))
          /\ UNCHANGED <<store, tokens>>

read_task(cred, task_id) ==
    /\ last = NoResponse
    /\ LET auth == get_current_active_user(cred)
       IN /\ IF ~auth.ok
             THEN Rejected("read_task", cred, auth, task_id)
             ELSE LET task == TaskService_get_task(task_id,
                                    UserRead(auth.id, users[auth.id]).id)
                  IN IF task = {}
                     THEN Reply("read_task", cred, auth.id, task_id, 404,
                                "Task not found", {})
                     ELSE Reply("read_task", cred, auth.id, task_id, 200, "", task)
          /\ UNCHANGED <<store, tokens>>

\* PUT /tasks/{task_id}
update_task(cred, task_id, body) ==
    /\ last = NoResponse
    /\ LET auth == get_current_active_user(cred)
       IN IF ~auth.ok
          THEN Rejected("update_task", cred, auth, task_id)
               /\ UNCHANGED <<store, tokens>>
          ELSE LET r == TaskService_update_task(task_id, body,
                                UserRead(auth.id, users[auth.id]).id)
               IN /\ tasks' = r.rows
                  /\ Reply("update_task", cred, auth.id, task_id, r.status, r.detail,
                           IF r.status = 200 THEN {task_id} ELSE {})
                  /\ UNCHANGED <<users, nextUserId, nextTaskId, categories, nextCategoryId, tokens>>

\* DELETE /tasks/{task_id}
delete_task(cred, task_id) ==
    /\ last = NoResponse
    /\ LET auth == get_current_active_user(cred)
       IN IF ~auth.ok
          THEN Rejected("delete_task", cred, auth, task_id)
               /\ UNCHANGED <<store, tokens>>
          ELSE LET r == TaskService_delete_task(task_id,
                                UserRead(auth.id, users[auth.id]).id)
               IN /\ tasks' = r.rows
                  /\ Reply("delete_task", cred, auth.id, task_id, r.status, r.detail,
                           {})
                  /\ UNCHANGED <<users, nextUserId, nextTaskId, categories, nextCategoryId, tokens>>

\* ------------------------------------------------------- category endpoints
\* POST /categories
create_category(cred, body) ==
    /\ last = NoResponse
    /\ LET auth == get_current_active_user(cred)
       IN IF ~auth.ok
          THEN Rejected("create_category", cred, auth, 0) /\ UNCHANGED <<store, tokens>>
          ELSE LET r == CategoryService_create_category(body,
                                UserRead(auth.id, users[auth.id]).id)
               IN /\ (nextTaskId - 1) + (nextCategoryId - 1) < MaxRows
                  /\ categories' = r.rows
                  /\ nextCategoryId' = nextCategoryId + 1
                  /\ Reply("create_category", cred, auth.id, nextCategoryId, r.status, r.detail,
                           {nextCategoryId})
                  /\ UNCHANGED <<users, nextUserId, tasks, nextTaskId, tokens>>

\* GET /categories
read_categories(cred) ==
    /\ last = NoResponse
    /\ LET auth == get_current_active_user(cred)
       IN /\ IF ~auth.ok
             THEN Rejected("read_categories", cred, auth, 0)
             ELSE Reply("read_categories", cred, auth.id, 0, 200, "",
                        CategoryService_get_categories(UserRead(auth.id, users[auth.id]).id))
          /\ UNCHANGED <<store, tokens>>

\* GET /categories/{category_id}
read_category(cred, category_id) ==
    /\ last = NoResponse
    /\ LET auth == get_current_active_user(cred)
       IN /\ IF ~auth.ok
             THEN Rejected("read_category", cred, auth, category_id)
             ELSE LET category == CategoryService_get_category(category_id,
                                    UserRead(auth.id, users[auth.id]).id)
                  IN IF category = {}
                     THEN Reply("read_category", cred, auth.id, category_id, 404,
                                "Category not found", {})
                     ELSE Reply("read_category", cred, auth.id, category_id, 200, "", category)
          /\ UNCHANGED <<store, tokens>>

\* PUT /categories/{category_id}
update_category(cred, category_id, body) ==
    /\ last = NoResponse
    /\ LET auth == get_current_active_user(cred)
       IN IF ~auth.ok
          THEN Rejected("update_category", cred, auth, category_id)
               /\ UNCHANGED <<store, tokens>>
          ELSE LET r == CategoryService_update_category(category_id, body,
                                UserRead(auth.id, users[auth.id]).id)
               IN /\ categories' = r.rows
                  /\ Reply("update_category", cred, auth.id, category_id, r.status, r.detail,
                           IF r.status = 200 THEN {category_id} ELSE {})
                  /\ UNCHANGED <<users, nextUserId, nextCategoryId, tasks, nextTaskId, tokens>>

\* DELETE /categories/{category_id}
delete_category(cred, category_id) ==
    /\ last = NoResponse
    /\ LET auth == get_current_active_user(cred)
       IN IF ~auth.ok
          THEN Rejected("delete_category", cred, auth, category_id)
               /\ UNCHANGED <<store, tokens>>
          ELSE LET r == CategoryService_delete_category(category_id,
                                UserRead(auth.id, users[auth.id]).id)
               IN /\ categories' = r.rows
                  /\ Reply("delete_category", cred, auth.id, category_id, r.status, r.detail,
                           {})
                  /\ UNCHANGED <<users, nextUserId, nextCategoryId, tasks, nextTaskId, tokens>>

\* ------------------------------------------------------------------ next
CreateUserRequests == Requests(UserCreateInputs, {UserCreateValid})

UpdateUserRequests ==
    Requests(UserIds \X UserUpdateInputs,
             {1} \X {[email |-> {}, username |-> {}, is_active |-> {TRUE}]})

\* the response leaves the server
deliver_response ==
    /\ last # NoResponse
    /\ last' = NoResponse
    /\ UNCHANGED <<store, tokens, pending>>

UserApi ==
    \/ \E form \in LoginInputs : login_for_access_token(form)
    \/ \E rq \in CreateUserRequests : create_user(rq[1], rq[2])
    \/ \E cred \in Credentials : read_users_me(cred)
    \/ \E cred \in Credentials : read_current_user(cred)
    \/ \E cred \in Credentials : read_users(cred)
    \/ \E rq \in Requests(UserIds, {1}) : read_user(rq[1], rq[2])
    \/ \E rq \in UpdateUserRequests : update_user(rq[1], rq[2][1], rq[2][2])
    \/ \E rq \in Requests(UserIds, {1}) : delete_user(rq[1], rq[2])

OwnedApi ==
    \/ \E cred \in Credentials, body \in TaskCreateInputs : create_task(cred, body)
    \/ \E cred \in Credentials : read_tasks(cred)
    \/ \E cred \in Credentials, task_id \in TaskIds : read_task(cred, task_id)
    \/ \E cred \in Credentials, task_id \in TaskIds, body \in TaskUpdateInputs :
          update_task(cred, task_id, body)
    \/ \E cred \in Credentials, task_id \in TaskIds : delete_task(cred, task_id)
    \/ \E cred \in Credentials, body \in CategoryCreateInputs :
          create_category(cred, body)
    \/ \E cred \in Credentials : read_categories(cred)
    \/ \E cred \in Credentials, category_id \in CategoryIds :
          read_category(cred, category_id)
    \/ \E cred \in Credentials, category_id \in CategoryIds,
          body \in CategoryUpdateInputs : update_category(cred, category_id, body)
    \/ \E cred \in Credentials, category_id \in CategoryIds :
          delete_category(cred, category_id)

Next == UserApi \/ OwnedApi \/ deliver_response

Spec == Init /\ [][Next]_vars

\* The role flag is written by no endpoint; an operator changes it in the
\* store directly.  The user-management API under such role changes:
set_is_superuser(user_id, flag) ==
    /\ last = NoResponse
    /\ user_id \in DOMAIN users
    /\ users[user_id].is_superuser # flag
    /\ users' = [users EXCEPT ![user_id].is_superuser = flag]
    /\ UNCHANGED <<nextUserId, tasks, nextTaskId, categories, nextCategoryId,
                   tokens, last, pending>>

RolesNext ==
    \/ UserApi
    \/ \E user_id \in UserIds, flag \in BOOLEAN : set_is_superuser(user_id, flag)
    \/ deliver_response

SpecRoles == Init /\ [][RolesNext]_vars

\* ------------------------------------------------- concurrent create_user
\* unique=True of User.email and User.username: the table the store accepts
User_unique_None(us) == TRUE

User_unique(us) ==
    \A i, j \in DOMAIN us :
       i # j => /\ us[i].email # us[j].email
                /\ us[i].username # us[j].username

\* two requests in flight can each add a row
MaxRaceUserId == MaxUserId + 1

Answer(w, caller, status, detail, id, stage) ==
    pending' = [pending EXCEPT ![w] =
                   [pc |-> "done", body |-> pending[w].body, caller |-> caller,
                    status |-> status, detail |-> detail, id |-> id,
                    stage |-> stage]]

\* POST /users up to the write: the dependencies, the body validation, the
\* scope check and the service's lookup of the username and the email
create_user_lookup(w, cred, body) ==
    /\ pending[w].pc = "idle"
    /\ LET bearer == HTTPBearer(cred)
           auth == get_current_active_user(cred)
       IN IF ~bearer.ok
          THEN Answer(w, 0, bearer.status, bearer.detail, 0, "guard")
          ELSE IF ~auth.ok
          THEN Answer(w, auth.id, auth.status, auth.detail, 0, "guard")
          ELSE IF ~UserCreate_ok(body)
          THEN Answer(w, auth.id, 422, "validation error", 0, "body")
          ELSE IF ~InList(USERS_WRITE, UserRead(auth.id, users[auth.id]).scopes)
          THEN Answer(w, auth.id, 403, "Not enough permissions", 0, "scope")
          ELSE IF UserService_create_user(body).status = 409
          THEN Answer(w, auth.id, 409, "Conflict", 0, "lookup")
          ELSE pending' = [pending EXCEPT ![w] =
                              [Idle EXCEPT !.pc = "insert", !.body = body,
                                           !.caller = auth.id]]
    /\ UNCHANGED <<store, tokens, last>>

\* the write of the row and the commit: the store refuses a table that
\* breaks a unique constraint, and the refusal surfaces as Conflict
create_user_insert(w) ==
    /\ pending[w].pc = "insert"
    /\ LET body == pending[w].body
           db_user == hash_user_password(
                          NewUser(body.email, body.username,
                                  get_password_hash(body.password)))
           inserted == users @@ (nextUserId :> db_user)
       IN IF User_unique(inserted)
          THEN /\ nextUserId <= MaxRaceUserId
               /\ users' = inserted
               /\ nextUserId' = nextUserId + 1
               /\ Answer(w, pending[w].caller, 201, "", nextUserId, "insert")
          ELSE /\ Answer(w, pending[w].caller, 409, "Conflict", 0, "insert")
               /\ UNCHANGED <<users, nextUserId>>
    /\ UNCHANGED <<tasks, nextTaskId, categories, nextCategoryId, tokens, last>>

\* the response of a concurrent request leaves the server
create_user_respond(w) ==
    /\ pending[w].pc = "done"
    /\ pending' = [pending EXCEPT ![w] = Idle]
    /\ UNCHANGED <<store, tokens, last>>

RaceNext ==
    \/ \E form \in LoginInputs : login_for_access_token(form)
    \/ \E w \in Workers, rq \in Requests(RaceCreateInputs, {UserCreateValid}) :
          create_user_lookup(w, rq[1], rq[2])
    \/ \E w \in Workers : create_user_insert(w)
    \/ \E w \in Workers : create_user_respond(w)
    \/ \E rq \in Requests(UserIds, {1}) : delete_user(rq[1], rq[2])
    \/ deliver_response

SpecRace == Init /\ [][RaceNext]_vars

\* ------------------------------------------------------------------ claims
UserManagementOps ==
    {"create_user", "read_users", "read_user", "update_user", "delete_user"}

RequiredScope(op) ==
    IF op \in {"read_users", "read_user"} THEN USERS_READ ELSE USERS_WRITE

Success == {200, 201, 204}

\* the access guard's verdict on the credential of the request just answered,
\* taken in the state the request found
Guard(cred) == get_current_active_user(cred)

\* this step answers a create_user or update_user request whose body fails
\* the schema validation
BodyRejected ==
    \/ \E rq \in CreateUserRequests :
          ~UserCreate_ok(rq[2]) /\ create_user(rq[1], rq[2])
    \/ \E rq \in UpdateUserRequests :
          ~UserUpdate_ok(rq[2][2]) /\ update_user(rq[1], rq[2][1], rq[2][2])

\* C1 (as stated): a user-management request of an authenticated, active
\* caller whose resolved scopes lack the required scope is answered 403 and
\* leaves the store unchanged; whatever takes effect or returns data was
\* asked by an elevated caller.
C1_Original_Step ==
    LET op == last'.op
        auth == Guard(last'.cred)
    IN (last = NoResponse /\ op \in UserManagementOps /\ auth.ok) =>
          /\ ~InList(RequiredScope(op), scopes(users[auth.id])) =>
                /\ last'.status = 403
                /\ UNCHANGED store
          /\ (last'.status \in Success \/ last'.data # {} \/ store' # store) =>
                users[auth.id].is_superuser

C1_Original == [][C1_Original_Step]_vars

\* C1 (amended): ... is answered 403, or 422 when the body of create_user or
\* update_user fails schema validation (which runs before the handler's scope
\* check), and leaves the store unchanged; whatever takes effect or returns
\* data was asked by an elevated caller.
C1_Step ==
    LET op == last'.op
        auth == Guard(last'.cred)
    IN (last = NoResponse /\ op \in UserManagementOps /\ auth.ok) =>
          /\ ~InList(RequiredScope(op), scopes(users[auth.id])) =>
                /\ IF BodyRejected THEN last'.status = 422
                                   ELSE last'.status = 403
                /\ last'.data = {}
                /\ UNCHANGED store
          /\ (last'.status \in Success \/ last'.data # {} \/ store' # store) =>
                users[auth.id].is_superuser

C1_ScopeGate == [][C1_Step]_vars

C1_Witness ==
    /\ last.op = "delete_user"
    /\ last.status = 403
    /\ last.caller \in DOMAIN users
    /\ ~users[last.caller].is_superuser
    /\ last.target \in DOMAIN users

\* C3: the scopes resolved for a user are the five-scope set when
\* is_superuser is true and {tasks:read, tasks:write} otherwise, for every
\* stored user and in every UserRead the API returns.
ScopesOfRole(is_superuser) ==
    IF is_superuser
    THEN {TASKS_READ, TASKS_WRITE, USERS_READ, USERS_WRITE, ADMIN}
    ELSE {TASKS_READ, TASKS_WRITE}

C3_ScopesFollowRole ==
    /\ \A i \in DOMAIN users :
          /\ Range(scopes(users[i])) = ScopesOfRole(users[i].is_superuser)
          /\ Range(scopes(users[i])) \subseteq UserScope
          /\ ~users[i].is_superuser =>
                Range(scopes(users[i])) \cap {ADMIN, USERS_READ, USERS_WRITE} = {}
    /\ last.op \in {"read_users_me", "read_current_user", "read_users",
                    "read_user", "create_user", "update_user"} =>
          \A u \in last.data : Range(u.scopes) = ScopesOfRole(u.is_superuser)

C3_Witness ==
    /\ last.op = "read_users_me"
    /\ last.status = 200
    /\ \E u \in last.data : ~u.is_superuser /\ Len(u.scopes) = 2
    /\ \E i \in DOMAIN users : users[i].is_superuser

\* C2: a read, update or delete of a task or category by an authenticated
\* caller who is not its owner is answered 404, returns nothing and leaves
\* the row as it was.
C2_Step ==
    LET op == last'.op
        auth == Guard(last'.cred)
        id == last'.target
    IN (last = NoResponse /\ auth.ok) =>
          /\ ( /\ op \in {"read_task", "update_task", "delete_task"}
               /\ id \in DOMAIN tasks
               /\ tasks[id].owner_id # auth.id ) =>
                /\ last'.status = 404
                /\ last'.data = {}
                /\ tasks' = tasks
          /\ ( /\ op \in {"read_category", "update_category", "delete_category"}
               /\ id \in DOMAIN categories
               /\ categories[id].owner_id # auth.id ) =>
                /\ last'.status = 404
                /\ last'.data = {}
                /\ categories' = categories

C2_OwnerOnly == [][C2_Step]_vars

C2_Witness ==
    /\ last.op = "update_task"
    /\ last.status = 404
    /\ last.caller \in DOMAIN users
    /\ last.target \in DOMAIN tasks
    /\ tasks[last.target].owner_id \in (DOMAIN users) \ {last.caller}

\* C4: a request to a protected endpoint without a usable token is answered
\* 401 and changes nothing; 403 goes only to an authenticated caller.
ProtectedOps ==
    UserManagementOps \cup
    {"read_users_me", "read_current_user",
     "create_task", "read_tasks", "read_task", "update_task", "delete_task",
     "create_category", "read_categories", "read_category", "update_category",
     "delete_category"}

C4_Step ==
    (last = NoResponse /\ last'.op \in ProtectedOps) =>
       /\ last'.cred \in Unauthenticated =>
             /\ last'.status = 401
             /\ UNCHANGED <<store, tokens>>
       /\ last'.status = 403 => Guard(last'.cred).ok

C4_Unauthenticated401 == [][C4_Step]_vars

\* C5: at the token endpoint an unknown username and a known username with
\* a wrong password get the same response: 401, the same detail, the same
\* WWW-Authenticate: Bearer header.
C5_LoginIndistinguishable ==
    /\ \A f1, f2 \in LoginInputs :
          ( /\ UserByUsername(f1.username) = {}
            /\ UserByUsername(f2.username) # {}
            /\ authenticate_user(f2.username, f2.password) = 0 ) =>
             /\ login_response(f1) = login_response(f2)
             /\ login_response(f1).status = 401
             /\ <<"WWW-Authenticate", "Bearer">> \in login_response(f1).headers
    /\ (last.op = "login_for_access_token" /\ last.caller = 0) =>
          /\ last.status = 401
          /\ last.detail = "Incorrect username or password"

C5_Witness ==
    /\ last.op = "login_for_access_token"
    /\ last.status = 401
    /\ last.target = 0
    /\ \E f \in LoginInputs :
          /\ UserByUsername(f.username) # {}
          /\ authenticate_user(f.username, f.password) = 0

\* C6: every stored username is 3 to 50 characters of letters, digits,
\* underscore and hyphen and does not contain "admin" in any case.
UsernameWellFormed(v) ==
    /\ Len(v) >= 3
    /\ Len(v) <= 50
    /\ AllIn(v, UsernameChars)
    /\ ~Contains(Lower(v), Str_admin)

C6_StoredUsernamesValid ==
    \A i \in DOMAIN users : UsernameWellFormed(users[i].username)

\* C7: the hashed secret stored by create_user is the submitted plaintext
\* hashed exactly once, so that it verifies against the plaintext and the
\* new user can authenticate with it.
C7_Step ==
    \A rq \in CreateUserRequests :
       (create_user(rq[1], rq[2]) /\ last'.status = 201) =>
          LET stored == users'[last'.target].hashed_password
          IN /\ stored = pwd_context_hash(Plain(rq[2].password))
             /\ pwd_context_verify(Plain(rq[2].password), stored)
             /\ stored # Plain(rq[2].password)
             /\ authenticate_user(rq[2].username, rq[2].password)' # 0

C7_HashedOnce == [][C7_Step]_vars

\* C8: a request to a protected endpoint with a token whose subject is
\* inactive when the request arrives is refused: no success status, no data,
\* no change of the store (so it stays refused for as long as the subject
\* stays inactive, /users/me and /api/me included).
C8_Step ==
    LET subject == get_current_user(last'.cred)
    IN ( /\ last = NoResponse
         /\ last'.op \in ProtectedOps
         /\ last'.cred \in tokens
         /\ subject.ok
         /\ ~users[subject.id].is_active ) =>
          /\ last'.status \notin Success
          /\ last'.data = {}
          /\ UNCHANGED <<store, tokens>>

C8_InactiveRejected == [][C8_Step]_vars

C8_Witness ==
    /\ last.op = "read_users_me"
    /\ last.cred \in tokens
    /\ last.status \notin Success
    /\ last.caller \in DOMAIN users
    /\ users[last.caller].username = last.cred.sub
    /\ ~users[last.caller].is_active
    /\ users[last.caller].last_login

\* C9: every stored task is owned by a stored user, and after delete_user
\* succeeds for a user no task of that user remains.
C9_NoOrphanTasks ==
    /\ \A t \in DOMAIN tasks : tasks[t].owner_id \in DOMAIN users
    /\ (last.op = "delete_user" /\ last.status = 204) =>
          /\ last.target \notin DOMAIN users
          /\ \A t \in DOMAIN tasks : tasks[t].owner_id # last.target

C9_Witness ==
    /\ last.op = "delete_user"
    /\ last.status = 204
    /\ last.cascaded # {}
    /\ last.cascaded \cap DOMAIN tasks = {}

\* C10: the scope check of the user-management endpoints follows the role
\* flag of the live record, whatever scopes the token carries: without the
\* required scope now the request is answered 403 (422 if its body fails
\* validation) and has no effect, with it the request is never answered 403;
\* and no step alters an issued token.
C10_Step ==
    LET op == last'.op
        auth == Guard(last'.cred)
    IN /\ tokens \subseteq tokens'
       /\ ( /\ last = NoResponse
            /\ op \in UserManagementOps
            /\ last'.cred \in tokens
            /\ auth.ok ) =>
             IF RequiredScope(op) \in ScopesOfRole(users[auth.id].is_superuser)
             THEN last'.status # 403
             ELSE /\ IF BodyRejected THEN last'.status = 422
                                     ELSE last'.status = 403
                  /\ last'.data = {}
                  /\ UNCHANGED store

C10_LiveScopes == [][C10_Step]_vars

C10_Witness ==
    /\ last.op = "read_users"
    /\ last.status = 403
    /\ last.cred \in tokens
    /\ InList(USERS_READ, last.cred.scopes)
    /\ last.caller \in DOMAIN users
    /\ ~users[last.caller].is_superuser
    /\ \E t \in tokens, i \in DOMAIN users :
          /\ users[i].username = t.sub
          /\ users[i].is_superuser
          /\ users[i].is_active
          /\ ~InList(USERS_READ, t.scopes)

\* ------------------------------------------------------------------- C12
\* C12: no request of the API changes the is_superuser value of a user that
\* exists before and after it, every user a request adds is created by
\* create_user and is not elevated, and the set of elevated users never
\* gains a member.
Elevated(us) == { i \in DOMAIN us : us[i].is_superuser }

C12_Step ==
    /\ \A i \in (DOMAIN users) \cap (DOMAIN users') :
          users'[i].is_superuser = users[i].is_superuser
    /\ \A i \in (DOMAIN users') \ (DOMAIN users) :
          /\ ~users'[i].is_superuser
          /\ last'.op = "create_user"
          /\ \A u \in last'.data : u.id = i /\ ~u.is_superuser
    /\ Elevated(users') \subseteq Elevated(users)

C12_NoEscalation == [][C12_Step]_vars

C12_Witness ==
    /\ last.op = "update_user"
    /\ last.status = 200
    /\ last.target \in (DOMAIN users) \ {1, 2}
    /\ ~users[last.target].is_superuser
    /\ Elevated(users) = {1}

\* ------------------------------------------------------------------- C11
\* C11: with create_user requests in flight together, no two user records
\* ever share a username or an email; a request whose write meets a record
\* with its username or its email is answered 409 and leaves the users
\* table as it was, and a request whose write succeeds adds one record and
\* leaves every other record as it was.
UniqueUsers ==
    \A i, j \in DOMAIN users :
       i # j => /\ users[i].email # users[j].email
                /\ users[i].username # users[j].username

Duplicate(body) ==
    \E i \in DOMAIN users : \/ users[i].username = body.username
                            \/ users[i].email = body.email

C11_Step ==
    \A w \in Workers :
       (pending[w].pc = "insert" /\ pending'[w].pc = "done") =>
          LET body == pending[w].body
              id == pending'[w].id
          IN IF Duplicate(body)
             THEN /\ pending'[w].status = 409
                  /\ users' = users
             ELSE /\ pending'[w].status = 201
                  /\ id \notin DOMAIN users
                  /\ DOMAIN users' = (DOMAIN users) \cup {id}
                  /\ \A i \in DOMAIN users : users'[i] = users[i]
                  /\ users'[id].username = body.username
                  /\ users'[id].email = body.email

C11_ConflictOnRace == []UniqueUsers /\ [][C11_Step]_vars

\* both requests passed the lookup; one has created the record and the
\* other, with the same username, has met it at the write
C11_Witness ==
    \E w, l \in Workers :
       /\ pending[w].pc = "done" /\ pending[w].status = 201
       /\ pending[l].pc = "done" /\ pending[l].status = 409
       /\ pending[l].stage = "insert"
       /\ pending[l].body.username = pending[w].body.username
       /\ Cardinality(UserByUsername(pending[w].body.username)) = 1

====
